---- MODULE Spec2Model ----
(***************************************************************************)
(* dependency-sentry: the outdated-set builder (src/checker.js), the       *)
(* vulnerability aggregator (src/security.js and its ESM variant), the     *)
(* update applier (updater.js) and the command line (src/cli.js).          *)
(*                                                                         *)
(* Strings that the code inspects (declared ranges, version strings,       *)
(* error messages) are sequences of tokens, so that the string operations  *)
(* of the code (startsWith, the prefix-stripping replace, template         *)
(* literals, includes) are computed and not assumed.                       *)
(***************************************************************************)
EXTENDS Integers, Sequences, FiniteSets, TLC

\* ------------------------------------------------------------------ bounds
\* largest major / minor / patch number of the version strings drawn
MaxVer == 1
\* largest number of entries of a manifest that declares several packages
MaxEntries == 3

\* ------------------------------------------------------------- vocabulary
Names == {"a", "b"}
\* the key order of a bucket as written in the manifest
NameOrder == <<"a", "b">>
Buckets == {"dependencies", "devDependencies", "peerDependencies"}

\* A version is <<major, minor, patch, release>>: release = 0 is a
\* pre-release of major.minor.patch, release = 1 the release itself.
Versions == (0..MaxVer) \X (0..MaxVer) \X (0..MaxVer) \X {0, 1}
NoVer == <<0, 0, 0, 1>>

\* One token of a string: an operator character, a marker, a version
\* literal, or other text.
Tok(k, v) == [k |-> k, v |-> v]
Op(c) == Tok(c, NoVer)
Ver(v) == Tok("ver", v)
Txt == Tok("txt", NoVer)
Space == Tok(" ", NoVer)
OpChars == {"^", "~", ">", "=", "<"}

\* JavaScript null / undefined, kept apart from the empty string <<>>
Null == <<Tok("null", NoVer)>>
\* a parsed JSON value that is not a string (npm printed an object)
JsonObject == <<Tok("object", NoVer)>>

\* ---------------------------------------------------------------- semver
\* semver's strict parser accepts exactly one version literal
valid(s) == Len(s) = 1 /\ s[1].k = "ver"

\* precedence of two versions: major, minor, patch, then pre-release
\* below its release
compare(a, b) ==
  IF a[1] # b[1] THEN (IF a[1] > b[1] THEN 1 ELSE -1)
  ELSE IF a[2] # b[2] THEN (IF a[2] > b[2] THEN 1 ELSE -1)
  ELSE IF a[3] # b[3] THEN (IF a[3] > b[3] THEN 1 ELSE -1)
  ELSE IF a[4] # b[4] THEN (IF a[4] > b[4] THEN 1 ELSE -1)
  ELSE 0

\* the >= comparator of a range
gte(a, b) == compare(a, b) >= 0

gtOrEqual(a, b) == compare(a, b) >= 0

\* semver.gt(a, b) on two parsed versions
gt(a, b) == compare(a, b) > 0

\* major.minor.patch of a below major.minor.patch of b (b taken as b-0)
ltTuple(a, b) == compare(<<a[1], a[2], a[3], 1>>, <<b[1], b[2], b[3], 1>>) < 0

\* upper bound of ^v: next major, or next minor under 0.x, or next patch
\* under 0.0.x
caretUpper(v) ==
  IF v[1] > 0 THEN <<v[1] + 1, 0, 0, 0>>
  ELSE IF v[2] > 0 THEN <<0, v[2] + 1, 0, 0>>
  ELSE <<0, 0, v[3] + 1, 0>>

tildeUpper(v) == <<v[1], v[2] + 1, 0, 0>>

\* a pre-release satisfies a comparator set only when a comparator names
\* a pre-release of the same major.minor.patch
prereleaseAllowed(l, v) ==
  l[4] = 1 \/ (v[4] = 0 /\ l[1] = v[1] /\ l[2] = v[2] /\ l[3] = v[3])

\* semver.satisfies(l, range) for a range written as operator characters
\* followed by one version; any other operator run is not a range
satisfies(l, ops, v) ==
  /\ prereleaseAllowed(l, v)
  /\ CASE ops = <<>> -> compare(l, v) = 0
       [] ops = <<"=">> -> compare(l, v) = 0
       [] ops = <<"^">> -> gte(l, v) /\ ltTuple(l, caretUpper(v))
       [] ops = <<"~">> -> gte(l, v) /\ ltTuple(l, tildeUpper(v))
       [] ops = <<"~", ">">> -> gte(l, v) /\ ltTuple(l, tildeUpper(v))
       [] ops = <<">">> -> gt(l, v)
       [] ops = <<">", "=">> -> gte(l, v)
       [] ops = <<"<">> -> compare(l, v) < 0
       [] ops = <<"<", "=">> -> compare(l, v) <= 0
       [] OTHER -> FALSE

\* ------------------------------------------------------- string helpers
RECURSIVE stripPrefix(_)
\* currentVersion.replace(/^[\^~>=<]+/, '')
stripPrefix(s) ==
  IF s # <<>> /\ Head(s).k \in OpChars THEN stripPrefix(Tail(s)) ELSE s

RECURSIVE opRun(_)
\* the operator characters a string starts with, as characters
opRun(s) ==
  IF s # <<>> /\ Head(s).k \in OpChars THEN <<Head(s).k>> \o opRun(Tail(s)) ELSE <<>>

\* s.startsWith(marker)
startsWith(s, marker) == s # <<>> /\ Head(s).k = marker

isSkippedFileOnly(currentVersion) == startsWith(currentVersion, "file:")

\* the test of lines 34-36: local file paths and git repositories
isSkipped(currentVersion) ==
  startsWith(currentVersion, "file:") \/ startsWith(currentVersion, "git+")

RECURSIVE Contains(_, _)
\* message.includes(text), on fragments
Contains(message, text) ==
  /\ Len(message) >= Len(text)
  /\ \/ SubSeq(message, 1, Len(text)) = text
     \/ Contains(Tail(message), text)

\* JavaScript truthiness of a string-or-undefined
truthy(s) == s # Null /\ s # <<>>

\* semver.maxSatisfying([latestVersion], currentVersion): the list's
\* element when it satisfies the range, else null
maxSatisfying(latestVersion, currentVersion) ==
  LET clean == stripPrefix(currentVersion) IN
  IF valid(latestVersion) /\ valid(clean)
     /\ satisfies(latestVersion[1].v, opRun(currentVersion), clean[1].v)
  THEN latestVersion ELSE Null

wantedVersionNoFallback(latestVersion, currentVersion) ==
  maxSatisfying(latestVersion, currentVersion)

\* maxSatisfying(...) || latestVersion
wantedVersion(latestVersion, currentVersion) ==
  IF truthy(maxSatisfying(latestVersion, currentVersion))
  THEN maxSatisfying(latestVersion, currentVersion)
  ELSE latestVersion

\* ------------------------------------------------------------- manifest
File == Tok("file:", NoVer)
Git == Tok("git+", NoVer)

\* partial maps from package names to declared ranges drawn from R
PartialMaps(R) == UNION {[S -> R] : S \in SUBSET Names}

CountEntries(d) ==
  Cardinality(DOMAIN d["dependencies"]) + Cardinality(DOMAIN d["devDependencies"])
    + Cardinality(DOMAIN d["peerDependencies"])

UsedBuckets(d) == {b \in Buckets : DOMAIN d[b] # {}}

Manifest(e, p, pr, d) == [exists |-> e, parseable |-> p, present |-> pr, deps |-> d]

NoDeps == [b \in Buckets |-> <<>>]

\* the operator runs and the bodies of the declared ranges drawn
Prefixes ==
  {<<>>, <<Op("^")>>, <<Op("~")>>, <<Op(">"), Op("=")>>, <<Op("^"), Op("~")>>}

Bodies ==
  {<<Ver(v)>> : v \in Versions}
    \cup {<<>>, <<Txt>>, <<File, Txt>>, <<File, Ver(NoVer)>>, <<Git, Txt>>,
          <<Ver(NoVer), Space, Op("<"), Ver(<<1, 0, 0, 1>>)>>}

WideRanges == {p \o b : p \in Prefixes, b \in Bodies}

SmallRanges ==
  {<<Op("^"), Ver(<<0, 1, 0, 1>>)>>, <<Ver(<<1, 0, 0, 1>>)>>, <<File, Txt>>, <<>>}

\* one package, one bucket, any range
WideManifests ==
  {Manifest(TRUE, TRUE, {b}, [NoDeps EXCEPT ![b] = [n \in {"a"} |-> r]]) :
     b \in Buckets, r \in WideRanges}

\* up to MaxEntries entries over the three buckets
MultiManifests ==
  {Manifest(TRUE, TRUE, UsedBuckets(d), d) :
     d \in {x \in [Buckets -> PartialMaps(SmallRanges)] :
              CountEntries(x) >= 1 /\ CountEntries(x) <= MaxEntries}}

\* no entry at all: any subset of the buckets present and empty
EmptyManifests == {Manifest(TRUE, TRUE, pr, NoDeps) : pr \in SUBSET Buckets}

BrokenManifests == {Manifest(FALSE, FALSE, {}, NoDeps), Manifest(TRUE, FALSE, {}, NoDeps)}

\* ------------------------------------------------------------- registry
\* what `npm view <name> version --json` does for a name
Answer(k, v) == [kind |-> k, v |-> v]
Failures == {Answer(k, NoVer) : k \in {"timeout", "notfound", "garbage", "object"}}
WideAnswers == {Answer("ok", v) : v \in Versions} \cup Failures
SmallAnswers ==
  {Answer("ok", <<1, 0, 0, 1>>), Answer("ok", <<1, 1, 0, 1>>),
   Answer("timeout", NoVer), Answer("object", NoVer)}

\* checkDependencies: the manifest on disk, npm's answers, the position in
\* the function, the merged buckets, the entries still to visit, the result,
\* the names queried, the names warned about, the rejection message
VARIABLES manifest, registry, pc, allDeps, pending, outdated, queried, warnings, error

\* checkVulnerabilities: which variant of the module runs, what `npm audit
\* --json` prints, the exit status of each execution of it, the position in
\* the function, the entries of the registry fallback still to visit, the
\* result, the module's cache, the keys requested from the registry
VARIABLES variant, auditOutput, auditStatuses, spc, spending, vulnerabilities,
          vulnerabilityCache, fetchLog

\* updateDependencies: the lockfiles of the working directory, the position
\* in the function, its options, the package manager it detected, the
\* parsed manifest it mutates, the lines it prints, the prompts it shows,
\* its rejection message, and the result of the check that preceded it
VARIABLES lockfiles, upc, updOptions, packageManager, pkgJson, updLog, prompts,
          updError, firstOutdated

\* the command line: its options, the position in main, the exit status
VARIABLES options, mpc, exitCode

\* getPackageVulnerabilities calls in flight
VARIABLES calls

checkerVars == <<registry, pc, allDeps, pending, outdated, queried, warnings, error>>
updVars == <<lockfiles, upc, updOptions, packageManager, pkgJson, updLog, prompts,
             updError, firstOutdated>>
cliVars == <<options, mpc, exitCode>>
extVars == <<updVars, cliVars, calls>>
secVars == <<variant, auditOutput, auditStatuses, spc, spending, vulnerabilities,
             vulnerabilityCache, fetchLog>>
vars == <<manifest, checkerVars, secVars, extVars>>

\* ------------------------------------------------------- checker.js
\* packageJson[bucket] || {}
bucketOrEmpty(packageJson, b) ==
  IF b \in packageJson.present THEN packageJson.deps[b] ELSE <<>>

\* the keys of a bucket in the order the manifest lists them
keysOf(m) == SelectSeq(NameOrder, LAMBDA n : n \in DOMAIN m)

\* { ...dependencies, ...devDependencies, ...peerDependencies }: a later
\* spread overwrites the value and keeps the key's first position
spread(packageJson) ==
  LET p == bucketOrEmpty(packageJson, "dependencies")
      d == bucketOrEmpty(packageJson, "devDependencies")
      r == bucketOrEmpty(packageJson, "peerDependencies")
  IN [n \in DOMAIN p \cup DOMAIN d \cup DOMAIN r |->
        IF n \in DOMAIN r THEN r[n] ELSE IF n \in DOMAIN d THEN d[n] ELSE p[n]]

\* Object.entries(allDeps) key order
entriesOrder(packageJson) ==
  LET p == bucketOrEmpty(packageJson, "dependencies")
      d == bucketOrEmpty(packageJson, "devDependencies")
      r == bucketOrEmpty(packageJson, "peerDependencies")
  IN keysOf(p)
       \o SelectSeq(keysOf(d), LAMBDA n : n \notin DOMAIN p)
       \o SelectSeq(keysOf(r), LAMBDA n : n \notin DOMAIN p \cup DOMAIN d)

ENOENT == <<"ENOENT: no such file or directory, access '", "<cwd>/", "package.json", "'">>
SyntaxError == <<"Unexpected token in JSON at position 0">>
TypeError == <<"Cannot convert undefined or null to object">>

\* throw new Error(`Error checking dependencies: ${error.message}`)
outerCatch(message) == <<"Error checking dependencies: ">> \o message

parseManifestStrict(m) ==
  IF ~m.parseable THEN [kind |-> "throw", message |-> SyntaxError]
  ELSE IF m.present # Buckets THEN [kind |-> "throw", message |-> TypeError]
  ELSE [kind |-> "ok", allDeps |-> spread(m), keys |-> entriesOrder(m)]

\* JSON.parse(await readFile(...)) and the merge of the three buckets
parseManifest(m) ==
  IF ~m.parseable THEN [kind |-> "throw", message |-> SyntaxError]
  ELSE [kind |-> "ok", allDeps |-> spread(m), keys |-> entriesOrder(m)]

\* JSON.parse(result.trim()) of npm's answer, or null from the catch
getLatestVersionOf(answer) ==
  CASE answer.kind = "ok" -> <<Ver(answer.v)>>
    [] answer.kind = "object" -> JsonObject
    [] OTHER -> Null

depTypeProdFirst(packageJson, name) ==
  LET has(b) == /\ b \in packageJson.present
                /\ name \in DOMAIN packageJson.deps[b]
                /\ truthy(packageJson.deps[b][name])
  IN IF has("dependencies") THEN "prod"
     ELSE IF has("devDependencies") THEN "dev"
     ELSE IF has("peerDependencies") THEN "peer"
     ELSE "prod"

\* let type = 'prod'; if (devDependencies[name]) 'dev'; else if
\* (peerDependencies[name]) 'peer'
depType(packageJson, name) ==
  LET has(b) == /\ b \in packageJson.present
                /\ name \in DOMAIN packageJson.deps[b]
                /\ truthy(packageJson.deps[b][name])
  IN IF has("devDependencies") THEN "dev"
     ELSE IF has("peerDependencies") THEN "peer"
     ELSE "prod"

\* the body of the inner try for one entry that is not skipped
tryBody(packageJson, name, currentVersion, latestVersion) ==
  LET cleanVersion == stripPrefix(currentVersion) IN
  IF ~truthy(latestVersion) THEN [kind |-> "none"]
  ELSE IF ~valid(latestVersion) \/ ~valid(cleanVersion) THEN [kind |-> "exception"]
  ELSE IF gt(latestVersion[1].v, cleanVersion[1].v)
  THEN [kind |-> "push",
        rec |-> [name |-> name,
                 current |-> currentVersion,
                 latest |-> latestVersion,
                 wanted |-> <<Op("^")>> \o wantedVersion(latestVersion, currentVersion),
                 type |-> depType(packageJson, name)]]
  ELSE [kind |-> "none"]

innerCatchRethrow(r) == [kind |-> "throw"]

\* catch (error) { console.warn(...) }: the entry is dropped with a warning
innerCatch(r) == [kind |-> "warn"]

tryEntry(packageJson, name, currentVersion, latestVersion) ==
  LET r == tryBody(packageJson, name, currentVersion, latestVersion)
  IN IF r.kind = "exception" THEN innerCatch(r) ELSE r

\* checkVulnerabilities is not running
SecIdle ==
  /\ variant = "cjs"
  /\ auditOutput = [kind |-> "none", vulns |-> <<>>, zeroText |-> FALSE]
  /\ auditStatuses = <<>>
  /\ spc = "idle"
  /\ spending = <<>>
  /\ vulnerabilities = <<>>
  /\ vulnerabilityCache = <<>>
  /\ fetchLog = <<>>

\* no flag given
NoFlags == [auto |-> FALSE, dev |-> FALSE, peer |-> FALSE]
NoOptions == [ci |-> FALSE, update |-> FALSE, security |-> FALSE, outdated |-> FALSE]
NoLockfiles == [yarn |-> FALSE, pnpm |-> FALSE]

\* updateDependencies is not running
UpdIdle ==
  /\ upc = "idle"
  /\ updOptions = NoFlags
  /\ packageManager = "none"
  /\ pkgJson = Manifest(FALSE, FALSE, {}, NoDeps)
  /\ updLog = <<>>
  /\ prompts = <<>>
  /\ updError = <<>>
  /\ firstOutdated = <<>>

\* main is not running
CliIdle == options = NoOptions /\ mpc = "idle" /\ exitCode = "none"

\* the functions are called directly: neither the updater nor main runs
ExtIdle == lockfiles = NoLockfiles /\ UpdIdle /\ CliIdle /\ calls = <<>>

\* await access(packageJsonPath) rejects: the outer catch rethrows
AccessFails ==
  /\ pc = "start"
  /\ ~manifest.exists
  /\ pc' = "rejected"
  /\ error' = outerCatch(ENOENT)
  /\ UNCHANGED <<manifest, registry, allDeps, pending, outdated, queried, warnings, secVars, extVars>>

\* read and parse package.json, merge the buckets
ReadManifest ==
  /\ pc = "start"
  /\ manifest.exists
  /\ LET r == parseManifest(manifest) IN
       IF r.kind = "throw"
       THEN /\ pc' = "rejected"
            /\ error' = outerCatch(r.message)
            /\ UNCHANGED <<allDeps, pending>>
       ELSE /\ pc' = "loop"
            /\ allDeps' = r.allDeps
            /\ pending' = r.keys
            /\ UNCHANGED error
  /\ UNCHANGED <<manifest, registry, outdated, queried, warnings, secVars, extVars>>

\* one iteration over an entry that is a local path or a git source
SkipEntry ==
  /\ pc = "loop"
  /\ pending # <<>>
  /\ isSkipped(allDeps[Head(pending)])
  /\ pending' = Tail(pending)
  /\ UNCHANGED <<manifest, registry, pc, allDeps, outdated, queried, warnings, error, secVars, extVars>>

\* one iteration over any other entry: query npm, compare, record
CheckEntry ==
  /\ pc = "loop"
  /\ pending # <<>>
  /\ ~isSkipped(allDeps[Head(pending)])
  /\ LET name == Head(pending)
         latestVersion == getLatestVersionOf(registry[name])
         r == tryEntry(manifest, name, allDeps[name], latestVersion)
     IN /\ queried' = Append(queried, name)
        /\ IF r.kind = "throw"
           THEN /\ pc' = "rejected"
                /\ error' = outerCatch(<<"Invalid Version">>)
                /\ UNCHANGED <<pending, outdated, warnings>>
           ELSE /\ pending' = Tail(pending)
                /\ outdated' = IF r.kind = "push" THEN Append(outdated, r.rec) ELSE outdated
                /\ warnings' =
                     IF r.kind = "warn" \/ latestVersion = Null
                     THEN Append(warnings, name) ELSE warnings
                /\ UNCHANGED <<pc, error>>
  /\ UNCHANGED <<manifest, registry, allDeps, secVars, extVars>>

\* return outdated
ReturnOutdated ==
  /\ pc = "loop"
  /\ pending = <<>>
  /\ pc' = "resolved"
  /\ UNCHANGED <<manifest, registry, allDeps, pending, outdated, queried, warnings, error, secVars, extVars>>

Init ==
  /\ \/ /\ manifest \in WideManifests
        /\ registry \in {[n \in Names |-> IF n = "a" THEN x ELSE Answer("notfound", NoVer)] :
                           x \in WideAnswers}
     \/ /\ manifest \in MultiManifests \cup EmptyManifests \cup BrokenManifests
        /\ registry \in [Names -> SmallAnswers]
  /\ pc = "start"
  /\ allDeps = <<>>
  /\ pending = <<>>
  /\ outdated = <<>>
  /\ queried = <<>>
  /\ warnings = <<>>
  /\ error = <<>>
  /\ SecIdle
  /\ ExtIdle

Next == AccessFails \/ ReadManifest \/ SkipEntry \/ CheckEntry \/ ReturnOutdated

Spec == Init /\ [][Next]_vars

\* ------------------------------------------------------- security.js
\* largest number of causes listed by one finding of the audit output
MaxVia == 2

Undefined == "undefined"

\* a missing or empty string is falsy
present(x) == x # Undefined /\ x # ""

\* exit status of one execution of `npm audit --json`; "killed" is an
\* execution ended by the timeout or a signal (status null)
Statuses == {"0", "1", "2", "killed"}

\* one entry of a finding's via list: an advisory object or the name of
\* another package
Cause(k, t, u, f, a) == [kind |-> k, title |-> t, url |-> u, fixedIn |-> f, advisory |-> a]
StringCause == Cause("string", Undefined, Undefined, Undefined, Undefined)
ObjectCauses ==
  {Cause("object", "T1", "U1", "F1", "A1"), Cause("object", "T2", "U2", "F2", "A2"),
   Cause("object", Undefined, Undefined, Undefined, Undefined)}
Causes == ObjectCauses \cup {StringCause}

SeqsUpTo(S, n) == UNION {[1..k -> S] : k \in 0..n}

\* data.via: absent, an array, or a single object
Via(k, items) == [kind |-> k, items |-> items]
Vias ==
  {Via("absent", <<>>)} \cup {Via("array", q) : q \in SeqsUpTo(Causes, MaxVia)}
    \cup {Via("object", <<c>>) : c \in ObjectCauses}

\* one value of the vulnerabilities map
Finding(isNull, sev, via, range) ==
  [null |-> isNull, severity |-> sev, via |-> via, range |-> range]
NullFinding == Finding(TRUE, Undefined, Via("absent", <<>>), Undefined)
SimpleFinding ==
  Finding(FALSE, "low", Via("array", <<Cause("object", "T2", "U2", "F2", "A2")>>), "<2.0.0")
Findings ==
  {Finding(FALSE, sev, via, "<1.0.0") : sev \in {Undefined, "high"}, via \in Vias}
    \cup {NullFinding}

VulnMaps ==
  {<<>>} \cup {[n \in {"a"} |-> f] : f \in Findings}
    \cup {[n \in Names |-> IF n = "a" THEN f ELSE SimpleFinding] : f \in Findings}

\* what the command prints: nothing, text that is no JSON, JSON null, a JSON
\* object without a vulnerabilities member, or an audit report; zeroText
\* says whether the text contains 'found 0 vulnerabilities'
Output(k, vm, z) == [kind |-> k, vulns |-> vm, zeroText |-> z]
NoOutput == Output("none", <<>>, FALSE)
Outputs ==
  {NoOutput} \cup {Output(k, <<>>, z) : k \in {"garbage", "null", "object"}, z \in BOOLEAN}
    \cup {Output("audit", vm, z) : vm \in VulnMaps, z \in BOOLEAN}

FewOutputs ==
  {Output("garbage", <<>>, FALSE),
   Output("audit", [n \in {"a"} |-> SimpleFinding], FALSE)}

\* one vulnerability record (a field the variant does not set is Undefined)
Vuln(name, version, severity, title, url, vv, pv, advisory) ==
  [name |-> name, version |-> version, severity |-> severity, title |-> title,
   url |-> url, vulnerable_versions |-> vv, patched_versions |-> pv,
   advisory |-> advisory]

\* x || d
orElse(x, d) == IF present(x) THEN x ELSE d

\* the error execSync throws for an execution that did not exit with 0
ExecError(status, out) ==
  [status |-> status, stdout |-> out,
   message |-> IF status = "killed" THEN <<"spawnSync /bin/sh ETIMEDOUT">>
               ELSE <<"Command failed: ", "npm audit", " --json">>]

\* an error thrown while parsing or walking the output
ParseError(message) == [status |-> Undefined, stdout |-> NoOutput, message |-> message]

\* execSync('npm audit --json', ...)
execSync(status, out) ==
  IF status = "0" THEN [kind |-> "ok", stdout |-> out]
  ELSE [kind |-> "throw", error |-> ExecError(status, out)]

\* hasNpmAudit: true iff the command exits with 0
hasNpmAudit(status) == execSync(status, NoOutput).kind = "ok"

\* JSON.parse(text) succeeds
parses(out) == out.kind \in {"null", "object", "audit"}

\* audit.vulnerabilities is truthy
hasVulnerabilities(out) == out.kind = "audit"

\* the record security.js pushes for one finding, or nothing
recordCjs(name, data) ==
  IF data.via.kind = "absent" THEN <<>>
  ELSE IF data.via.items = <<>> THEN <<>>
  ELSE LET vuln == data.via.items[1] IN
       <<Vuln(name, Undefined, data.severity,
              orElse(vuln.title, "Unknown vulnerability"),
              IF present(vuln.url) THEN <<vuln.url>> ELSE <<>>,
              orElse(data.range, "*"),
              IF present(vuln.fixedIn) THEN <<">=", vuln.fixedIn>>
              ELSE <<"No fix available">>,
              orElse(vuln.advisory, ""))>>

\* the record the ESM variant pushes for one finding, or nothing
recordEsm(name, data) ==
  IF data.via.kind # "array" THEN <<>>
  ELSE IF data.via.items = <<>> THEN <<>>
  ELSE LET vuln == data.via.items[1] IN
       IF vuln.kind # "object" THEN <<>>
       ELSE <<Vuln(name, "unknown", orElse(data.severity, "moderate"),
                   orElse(vuln.title, "Unknown vulnerability"),
                   IF present(vuln.url) THEN <<vuln.url>> ELSE <<>>,
                   orElse(data.range, "*"),
                   IF present(vuln.fixedIn) THEN <<">=", vuln.fixedIn>>
                   ELSE <<"No fix available">>,
                   orElse(vuln.advisory, ""))>>

\* the record the ESM variant pushes for one finding of an output attached
\* to exit status 1
recordEsmFailure(name, data) ==
  <<Vuln(name, "unknown", orElse(data.severity, "moderate"),
         "Security vulnerability detected", <<>>, orElse(data.range, "*"),
         <<"Run npm audit fix">>, "Run npm audit for details")>>

RECURSIVE walk(_, _, _)
\* for (const [name, data] of Object.entries(vulnerabilities)): the records
\* in order, or the TypeError of reading a member of a null finding
walk(vm, keys, variantOfRecord) ==
  IF keys = <<>> THEN [kind |-> "ok", records |-> <<>>]
  ELSE LET name == Head(keys)
           data == vm[name]
           rest == walk(vm, Tail(keys), variantOfRecord)
       IN IF data.null \/ rest.kind = "throw"
          THEN [kind |-> "throw", error |-> ParseError(TypeError)]
          ELSE [kind |-> "ok",
                records |-> (CASE variantOfRecord = "cjs" -> recordCjs(name, data)
                               [] variantOfRecord = "esm" -> recordEsm(name, data)
                               [] OTHER -> recordEsmFailure(name, data))
                              \o rest.records]

\* the try block of checkWithNpmAudit
auditTry(v, status, out) ==
  LET run == execSync(status, out) IN
  IF run.kind = "throw" THEN run
  ELSE IF ~parses(out) THEN [kind |-> "throw", error |-> ParseError(SyntaxError)]
  ELSE IF out.kind = "null" THEN [kind |-> "throw", error |-> ParseError(TypeError)]
  ELSE IF ~hasVulnerabilities(out) THEN [kind |-> "ok", records |-> <<>>]
  ELSE walk(out.vulns, keysOf(out.vulns), v)

\* security.js: catch (error) { throw new Error(`Failed to run npm audit: ...`) }
auditCatchCjs(e) ==
  [kind |-> "throw", message |-> <<"Failed to run npm audit: ">> \o e.message]

\* the ESM variant's catch: zero vulnerabilities, the output attached to
\* exit status 1, or nothing
auditCatchEsm(e) ==
  IF e.stdout.kind # "none" /\ e.stdout.zeroText THEN [kind |-> "ok", records |-> <<>>]
  ELSE IF Contains(e.message, <<"found 0 vulnerabilities">>) THEN [kind |-> "ok", records |-> <<>>]
  ELSE IF e.status = "1" /\ Contains(e.message, <<"npm audit">>)
          /\ e.stdout.kind # "none" /\ (~parses(e.stdout) \/ e.stdout.kind = "null")
  THEN [kind |-> "ok", records |-> <<>>]
  ELSE IF e.status = "1" /\ Contains(e.message, <<"npm audit">>)
          /\ hasVulnerabilities(e.stdout)
  THEN LET w == walk(e.stdout.vulns, keysOf(e.stdout.vulns), "esmFailure") IN
       IF w.kind = "throw" THEN [kind |-> "ok", records |-> <<>>] ELSE w
  ELSE [kind |-> "ok", records |-> <<>>]

\* checkWithNpmAudit of either variant
checkWithNpmAudit(v, status, out) ==
  LET r == auditTry(v, status, out) IN
  IF r.kind = "ok" THEN r
  ELSE IF v = "cjs" THEN auditCatchCjs(r.error) ELSE auditCatchEsm(r.error)

vulnCatchRethrow(r) == [kind |-> "throw", records |-> <<>>]

\* checkVulnerabilities: catch (error) { console.warn(...); return []; }
vulnCatch(r) == [kind |-> "ok", records |-> <<>>]

\* one advisory of the registry document of a package version
Adv(sev, title, url, id, vv, pv, overview) ==
  [severity |-> sev, title |-> title, url |-> url, id |-> id,
   vulnerable_versions |-> vv, patched_versions |-> pv, overview |-> overview]
AdvFull == Adv("critical", "T3", "U3", "3", "<3.0.0", ">=3.0.0", "O3")
AdvBare == Adv(Undefined, Undefined, Undefined, "7", Undefined, Undefined, Undefined)

\* what fetch(registry/<name>/<version>) does: it rejects, answers with an
\* error status, answers with a body that is no JSON, or answers with a
\* document that may hold a vulnerabilities map
Fetch(k, hasVulns, advisories) ==
  [kind |-> k, hasVulns |-> hasVulns, advisories |-> advisories]
FetchOutcomes ==
  {Fetch(k, FALSE, <<>>) : k \in {"network", "http", "badjson", "ok"}}
    \cup {Fetch("ok", TRUE, q) : q \in {<<>>, <<AdvFull>>, <<AdvFull, AdvBare>>}}

\* `${name}@${version}`
cacheKey(name, version) == <<name, version>>

\* the record pushed for one advisory of the registry document
recordRegistry(name, version, vuln) ==
  Vuln(name, version, orElse(vuln.severity, "moderate"),
       orElse(vuln.title, "Unknown vulnerability"),
       IF present(vuln.url) THEN <<vuln.url>>
       ELSE <<"https://www.npmjs.com/advisories/", vuln.id>>,
       orElse(vuln.vulnerable_versions, "*"),
       <<orElse(vuln.patched_versions, "No fix available")>>,
       orElse(vuln.overview, ""))

RECURSIVE recordsRegistry(_, _, _)
recordsRegistry(name, version, advisories) ==
  IF advisories = <<>> THEN <<>>
  ELSE <<recordRegistry(name, version, Head(advisories))>>
         \o recordsRegistry(name, version, Tail(advisories))

requestVulnerabilitiesNoStore(name, version, cache, o) ==
  [records |-> IF o.kind = "ok" /\ o.hasVulns
               THEN recordsRegistry(name, version, o.advisories) ELSE <<>>,
   cache |-> cache]

\* lines 134-168 of getPackageVulnerabilities: the request was sent and is
\* answered with o; the records returned and the cache afterwards (a
\* failure is warned about and leaves the cache alone)
requestVulnerabilities(name, version, cache, o) ==
  LET key == cacheKey(name, version) IN
  IF o.kind # "ok"
  THEN [records |-> <<>>, cache |-> cache]
  ELSE LET found == IF o.hasVulns THEN recordsRegistry(name, version, o.advisories)
                    ELSE <<>>
       IN [records |-> found,
           cache |-> [k \in DOMAIN cache \cup {key} |->
                        IF k = key THEN found ELSE cache[k]]]

\* getPackageVulnerabilities(name, version) with the cache as it is and the
\* outcome o of the request, should one be sent: the records returned, the
\* cache afterwards, whether a request was sent
getPackageVulnerabilities(name, version, cache, o) ==
  LET key == cacheKey(name, version) IN
  IF key \in DOMAIN cache
  THEN [records |-> cache[key], cache |-> cache, requested |-> FALSE]
  ELSE LET r == requestVulnerabilities(name, version, cache, o) IN
       [records |-> r.records, cache |-> r.cache, requested |-> TRUE]

\* the entries of the fallback loop: [name, version] of the merged buckets
registryEntries(m) ==
  LET all == spread(m)
      keys == entriesOrder(m)
  IN [i \in 1..Len(keys) |-> <<keys[i], all[keys[i]]>>]

\* checkVulnerabilities has run to its end with result r
Finish(r) ==
  /\ spc' = IF r.kind = "ok" THEN "resolved" ELSE "rejected"
  /\ vulnerabilities' = r.records

\* security.js: if (await hasNpmAudit()): a first execution of the command,
\* its output ignored
HasNpmAudit ==
  /\ spc = "start"
  /\ variant = "cjs"
  /\ \E status \in Statuses :
       /\ auditStatuses' = Append(auditStatuses, status)
       /\ spc' = IF hasNpmAudit(status) THEN "audit" ELSE "registry"
  /\ UNCHANGED <<extVars, manifest, checkerVars, variant, auditOutput, spending, vulnerabilities,
                 vulnerabilityCache, fetchLog>>

\* return await checkWithNpmAudit(), under the catch of checkVulnerabilities
RunNpmAudit ==
  /\ \/ variant = "cjs" /\ spc = "audit"
     \/ variant = "esm" /\ spc = "start"
  /\ \E status \in Statuses :
       /\ auditStatuses' = Append(auditStatuses, status)
       /\ LET r == checkWithNpmAudit(variant, status, auditOutput)
          IN Finish(IF r.kind = "throw" THEN vulnCatch(r) ELSE r)
  /\ UNCHANGED <<extVars, manifest, checkerVars, variant, auditOutput, spending,
                 vulnerabilityCache, fetchLog>>

\* checkWithNpmRegistry: read package.json and merge the buckets; a failure
\* is rethrown and caught by checkVulnerabilities
RegistryRead ==
  /\ spc = "registry"
  /\ IF manifest.exists /\ manifest.parseable
     THEN /\ spc' = "registryLoop"
          /\ spending' = registryEntries(manifest)
          /\ UNCHANGED vulnerabilities
     ELSE /\ Finish(vulnCatch([kind |-> "throw"]))
          /\ UNCHANGED spending
  /\ UNCHANGED <<extVars, manifest, checkerVars, variant, auditOutput, auditStatuses,
                 vulnerabilityCache, fetchLog>>

\* one iteration over an entry that is a local path or a git source
RegistrySkip ==
  /\ spc = "registryLoop"
  /\ spending # <<>>
  /\ isSkipped(Head(spending)[2])
  /\ spending' = Tail(spending)
  /\ UNCHANGED <<extVars, manifest, checkerVars, variant, auditOutput, auditStatuses, spc,
                 vulnerabilities, vulnerabilityCache, fetchLog>>

\* one iteration over any other entry: await getPackageVulnerabilities
RegistryPackage ==
  /\ spc = "registryLoop"
  /\ spending # <<>>
  /\ ~isSkipped(Head(spending)[2])
  /\ \E o \in FetchOutcomes :
       LET name == Head(spending)[1]
           version == Head(spending)[2]
           g == getPackageVulnerabilities(name, version, vulnerabilityCache, o)
       IN /\ vulnerabilities' = vulnerabilities \o g.records
          /\ vulnerabilityCache' = g.cache
          /\ fetchLog' = IF g.requested
                         THEN Append(fetchLog, [key |-> cacheKey(name, version), outcome |-> o])
                         ELSE fetchLog
  /\ spending' = Tail(spending)
  /\ UNCHANGED <<extVars, manifest, checkerVars, variant, auditOutput, auditStatuses, spc>>

\* return vulnerabilities
RegistryReturn ==
  /\ spc = "registryLoop"
  /\ spending = <<>>
  /\ spc' = "resolved"
  /\ UNCHANGED <<extVars, manifest, checkerVars, variant, auditOutput, auditStatuses, spending,
                 vulnerabilities, vulnerabilityCache, fetchLog>>

\* manifests of the fallback: up to two entries
SecManifests ==
  {x \in MultiManifests : CountEntries(x.deps) <= 2} \cup BrokenManifests
    \cup {Manifest(TRUE, TRUE, {}, NoDeps)}

FewManifests ==
  {Manifest(TRUE, TRUE, {"dependencies"},
            [NoDeps EXCEPT !["dependencies"] = [n \in {"a"} |-> <<Ver(<<1, 0, 0, 1>>)>>]]),
   Manifest(FALSE, FALSE, {}, NoDeps)}

\* checkDependencies is not running
CheckerIdle ==
  /\ registry = [n \in Names |-> Answer("notfound", NoVer)]
  /\ pc = "idle"
  /\ allDeps = <<>>
  /\ pending = <<>>
  /\ outdated = <<>>
  /\ queried = <<>>
  /\ warnings = <<>>
  /\ error = <<>>

InitSec ==
  /\ CheckerIdle
  /\ ExtIdle
  /\ variant \in {"cjs", "esm"}
  /\ \/ auditOutput \in Outputs /\ manifest \in FewManifests
     \/ auditOutput \in FewOutputs /\ manifest \in SecManifests
  /\ auditStatuses = <<>>
  /\ spc = "start"
  /\ spending = <<>>
  /\ vulnerabilities = <<>>
  /\ vulnerabilityCache = <<>>
  /\ fetchLog = <<>>

NextSec ==
  HasNpmAudit \/ RunNpmAudit \/ RegistryRead \/ RegistrySkip \/ RegistryPackage
    \/ RegistryReturn

\* both variants of the module
SpecSec == InitSec /\ [][NextSec]_vars

\* src/security.js alone
InitCjs == InitSec /\ variant = "cjs"

SpecCjs == InitCjs /\ [][NextSec]_vars

\* ------------------------------------------------ checkDependencies claims
Records == {outdated[i] : i \in 1..Len(outdated)}
HasRecord(n) == \E r \in Records : r.name = n
ManifestReadable == manifest.exists /\ manifest.parseable

\* l above v in semantic-version order, written out component by component
StrictlyAbove(l, v) ==
  \/ l[1] > v[1]
  \/ l[1] = v[1] /\ l[2] > v[2]
  \/ l[1] = v[1] /\ l[2] = v[2] /\ l[3] > v[3]
  \/ l[1] = v[1] /\ l[2] = v[2] /\ l[3] = v[3] /\ l[4] > v[4]

\* the range with its leading ^ ~ > = < characters removed is a version
\* and l is strictly above it
AboveBare(l, range) ==
  LET bare == stripPrefix(range) IN valid(bare) /\ StrictlyAbove(l, bare[1].v)

\* the range begins with the local-path marker or the git-source marker
BeginsWithMarker(range) == range # <<>> /\ Head(range).k \in {"file:", "git+"}

\* C1: when checkDependencies has resolved, every package whose range (the
\* one the merge of the buckets keeps) is not skipped and whose query
\* returned a version L has a record if and only if L is strictly greater
\* than the range with its operator prefix removed; an equal version never
\* has a record.
C1_RecordIffStrictlyGreater ==
  pc = "resolved" =>
    \A n \in DOMAIN allDeps :
      (~BeginsWithMarker(allDeps[n]) /\ registry[n].kind = "ok") =>
        (HasRecord(n) <=> AboveBare(registry[n].v, allDeps[n]))

\* a record for a range with an operator prefix whose bare version has the
\* major number of the latest version
C1_Witness ==
  /\ pc = "resolved"
  /\ \E r \in Records :
       /\ opRun(r.current) # <<>>
       /\ registry[r.name].kind = "ok"
       /\ stripPrefix(r.current)[1].v[1] = r.latest[1].v[1]

\* C2 as stated: the wanted field of every record is the latest version
\* string itself.
C2_WantedEqualsLatest == \A r \in Records : r.wanted = r.latest

\* C2 as amended: the wanted field of every record is the character ^
\* followed by the latest version string, whether or not the latest version
\* satisfies the declared range.
C2_WantedIsCaretLatest == \A r \in Records : r.wanted = <<Op("^")>> \o r.latest

\* a record whose latest version is outside the declared caret range
C2_Witness ==
  \E r \in Records :
    /\ opRun(r.current) = <<"^">>
    /\ ~satisfies(r.latest[1].v, <<"^">>, stripPrefix(r.current)[1].v)

InBucket(b, n) == b \in manifest.present /\ n \in DOMAIN manifest.deps[b]
NonEmptyIn(b, n) == InBucket(b, n) /\ manifest.deps[b][n] # <<>>

\* C3 as stated: a name held by dependencies is reported as prod; a name
\* held by devDependencies and peerDependencies only is reported as dev.
C3_ProductionFirst ==
  \A r \in Records :
    /\ InBucket("dependencies", r.name) => r.type = "prod"
    /\ (/\ ~InBucket("dependencies", r.name)
        /\ InBucket("devDependencies", r.name)
        /\ InBucket("peerDependencies", r.name)) => r.type = "dev"

\* C3 as amended: among the buckets that hold the name with a non-empty
\* range the precedence is development, then peer, then production.
C3_DevelopmentFirst ==
  \A r \in Records :
    /\ NonEmptyIn("devDependencies", r.name) => r.type = "dev"
    /\ (/\ ~NonEmptyIn("devDependencies", r.name)
        /\ NonEmptyIn("peerDependencies", r.name)) => r.type = "peer"
    /\ (/\ ~NonEmptyIn("devDependencies", r.name)
        /\ ~NonEmptyIn("peerDependencies", r.name)) => r.type = "prod"

\* a record of a name that all three buckets hold with a non-empty range
C3_Witness ==
  \E r \in Records : \A b \in Buckets : NonEmptyIn(b, r.name)

\* C4: an entry whose range begins with file: or git+ has no record, is
\* skipped without a query whatever the registry holds for its name, and
\* does not make checkDependencies reject.
C4_SkippedNeverReported ==
  /\ \A r \in Records : ~BeginsWithMarker(r.current)
  /\ \A n \in DOMAIN allDeps :
       BeginsWithMarker(allDeps[n]) =>
         /\ ~HasRecord(n)
         /\ \A i \in 1..Len(queried) : queried[i] # n
  /\ ManifestReadable => pc # "rejected"

\* resolved with a skipped entry whose name the registry knows at a version
C4_Witness ==
  /\ pc = "resolved"
  /\ \E n \in DOMAIN allDeps : BeginsWithMarker(allDeps[n]) /\ registry[n].kind = "ok"

\* the packages whose latest-version query fails
FailingNames == {n \in Names : registry[n].kind # "ok"}

\* the manifest without the packages of F
WithoutNames(m, F) ==
  [m EXCEPT !.deps = [b \in Buckets |-> [n \in DOMAIN m.deps[b] \ F |-> m.deps[b][n]]]]

RECURSIVE recordsOf(_, _, _, _)
\* the records of a run over the keys in order
recordsOf(m, all, keys, reg) ==
  IF keys = <<>> THEN <<>>
  ELSE LET n == Head(keys)
           r == IF isSkipped(all[n]) THEN [kind |-> "none"]
                ELSE tryEntry(m, n, all[n], getLatestVersionOf(reg[n]))
       IN (IF r.kind = "push" THEN <<r.rec>> ELSE <<>>)
            \o recordsOf(m, all, Tail(keys), reg)

\* what checkDependencies returns for manifest m
resultOf(m, reg) == recordsOf(m, spread(m), entriesOrder(m), reg)

\* C5: with any set F of packages whose query fails, checkDependencies on a
\* readable manifest never rejects, and resolves with exactly the records
\* of the manifest without the packages of F.
C5_FailureIsolation ==
  ManifestReadable =>
    /\ pc # "rejected"
    /\ pc = "resolved" =>
         /\ \A n \in FailingNames : ~HasRecord(n)
         /\ outdated = resultOf(WithoutNames(manifest, FailingNames), registry)

\* resolved with one package failing (queried) and another one recorded
C5_Witness ==
  /\ pc = "resolved"
  /\ \E n \in FailingNames : \E i \in 1..Len(queried) : queried[i] = n
  /\ Records # {}

\* C6 as stated: without package.json checkDependencies never resolves,
\* and rejects with a message containing 'package.json not found'.
C6_MissingManifestMessage ==
  ~manifest.exists =>
    /\ pc # "resolved"
    /\ pc = "rejected" => Contains(error, <<"package.json", " not found">>)

\* C7: for a parseable manifest with none of the three buckets,
\* checkDependencies never rejects, issues no query and resolves with an
\* empty array.
C7_NoBucketsEmptyResult ==
  (ManifestReadable /\ manifest.present = {}) =>
    /\ pc # "rejected"
    /\ queried = <<>>
    /\ outdated = <<>>
    /\ pc \in {"start", "loop", "resolved"}

C7_Witness == ManifestReadable /\ manifest.present = {} /\ pc = "resolved"

\* the bucket a record's type names
BucketOfType(t) ==
  CASE t = "prod" -> "dependencies"
    [] t = "dev" -> "devDependencies"
    [] OTHER -> "peerDependencies"

\* C19 as stated: no two records of the result carry the same name, and the
\* current field of every record is the range the manifest declares for the
\* name in the bucket the record's type names.
C19_OneRecordCurrentOfTypeBucket ==
  /\ \A i \in 1..Len(outdated) : \A j \in 1..Len(outdated) :
       outdated[i].name = outdated[j].name => i = j
  /\ \A r \in Records :
       /\ InBucket(BucketOfType(r.type), r.name)
       /\ r.current = manifest.deps[BucketOfType(r.type)][r.name]

\* ----------------------------------------------- checkVulnerabilities claims
VulnRecords == {vulnerabilities[i] : i \in 1..Len(vulnerabilities)}

\* every execution of the audit command ended with a failure exit status
AuditFailed ==
  auditStatuses # <<>> /\ \A i \in 1..Len(auditStatuses) : auditStatuses[i] # "0"

\* every execution of the audit command exited with 0
AuditSucceeded ==
  auditStatuses # <<>> /\ \A i \in 1..Len(auditStatuses) : auditStatuses[i] = "0"

\* the output is an audit report whose findings all are objects
WellFormedReport ==
  auditOutput.kind = "audit" /\ \A n \in DOMAIN auditOutput.vulns : ~auditOutput.vulns[n].null

\* the finding lists at least one cause
ListsCause(f) == f.via.kind # "absent" /\ f.via.items # <<>>

\* C8 as stated: when the audit command ends with a failure exit status and
\* its output is a report carrying a vulnerabilities map,
\* checkVulnerabilities returns a record for every finding that lists a
\* cause, and it turns to the registry fallback only when the output is no
\* such report.
C8_FailureOutputParsed ==
  /\ (spc = "resolved" /\ AuditFailed /\ WellFormedReport) =>
       \A n \in DOMAIN auditOutput.vulns :
         ListsCause(auditOutput.vulns[n]) => \E r \in VulnRecords : r.name = n
  /\ (AuditFailed /\ spc \in {"registry", "registryLoop"}) => ~WellFormedReport

\* C9 as stated: when the audit report is read, every finding that lists a
\* cause has exactly one record; its severity is the finding's, or
\* 'moderate' when omitted; its title, URL and patched range are those the
\* first listed cause carries.
C9_FirstCauseAndSeverity ==
  (spc = "resolved" /\ AuditSucceeded /\ WellFormedReport) =>
    \A n \in DOMAIN auditOutput.vulns :
      LET f == auditOutput.vulns[n] IN
      ListsCause(f) =>
        /\ Cardinality({i \in 1..Len(vulnerabilities) : vulnerabilities[i].name = n}) = 1
        /\ \A r \in VulnRecords :
             r.name = n =>
               LET first == f.via.items[1] IN
               /\ r.severity = (IF f.severity = Undefined THEN "moderate" ELSE f.severity)
               /\ first.title # Undefined => r.title = first.title
               /\ first.url # Undefined => r.url = <<first.url>>
               /\ first.fixedIn # Undefined => r.patched_versions = <<">=", first.fixedIn>>

\* the audit output is no well-formed report, or a report without findings
NoAuditData == ~WellFormedReport \/ DOMAIN auditOutput.vulns = {}

\* no request to the registry was answered with an advisory
NoRegistryData ==
  \A i \in 1..Len(fetchLog) :
    fetchLog[i].outcome.kind # "ok" \/ fetchLog[i].outcome.advisories = <<>>

\* C10: whatever the audit command and the registry do, checkVulnerabilities
\* never rejects, and it resolves with the empty sequence when neither the
\* audit output nor the registry yields a finding.
C10_NeverRejects ==
  /\ spc # "rejected"
  /\ (spc = "resolved" /\ NoAuditData /\ NoRegistryData) => vulnerabilities = <<>>

\* resolved after an audit that failed with unparseable output and a
\* registry request that failed too
C10_Witness ==
  /\ spc = "resolved"
  /\ AuditFailed
  /\ ~parses(auditOutput)
  /\ fetchLog # <<>>
  /\ \A i \in 1..Len(fetchLog) : fetchLog[i].outcome.kind \in {"network", "http", "badjson"}

\* ------------------------------------- getPackageVulnerabilities, called
\* largest number of getPackageVulnerabilities calls of one process
MaxCalls == 3

\* the name@version pairs the calls are made for
CallKeys ==
  {<<"a", <<Ver(<<1, 0, 0, 1>>)>>>>, <<"a", <<Op("^"), Ver(<<0, 1, 0, 1>>)>>>>,
   <<"b", <<Ver(<<1, 0, 0, 1>>)>>>>}

\* the calls whose request has not been answered yet
InFlight == {i \in 1..Len(calls) : calls[i].state = "fetching"}

\* a call starts: the cache is looked up and, on a miss, the request is
\* sent; the call is suspended at `await fetch(...)` until o arrives
CallStart ==
  /\ Len(calls) < MaxCalls
  /\ \E k \in CallKeys, o \in FetchOutcomes :
       LET key == cacheKey(k[1], k[2]) IN
       IF key \in DOMAIN vulnerabilityCache
       THEN /\ calls' = Append(calls, [key |-> key, state |-> "returned", requested |-> FALSE,
                                       outcome |-> Fetch("ok", FALSE, <<>>),
                                       records |-> vulnerabilityCache[key],
                                       during |-> InFlight])
            /\ UNCHANGED fetchLog
       ELSE /\ calls' = Append(calls, [key |-> key, state |-> "fetching", requested |-> TRUE,
                                       outcome |-> o, records |-> <<>>,
                                       during |-> InFlight])
            /\ fetchLog' = Append(fetchLog, [key |-> key, outcome |-> o])
  /\ UNCHANGED <<manifest, checkerVars, updVars, cliVars, variant, auditOutput,
                 auditStatuses, spc, spending, vulnerabilities, vulnerabilityCache>>

\* a call starts while no other call is suspended
CallStartIdle == InFlight = {} /\ CallStart

\* the request of a suspended call is answered: the call stores a
\* successful result in the cache and returns
CallReturn ==
  /\ \E i \in InFlight :
       LET c == calls[i]
           r == requestVulnerabilities(c.key[1], c.key[2], vulnerabilityCache, c.outcome)
       IN /\ vulnerabilityCache' = r.cache
          /\ calls' = [calls EXCEPT ![i].state = "returned", ![i].records = r.records]
  /\ UNCHANGED <<manifest, checkerVars, updVars, cliVars, variant, auditOutput,
                 auditStatuses, spc, spending, vulnerabilities, fetchLog>>

InitCalls ==
  /\ manifest = Manifest(FALSE, FALSE, {}, NoDeps)
  /\ CheckerIdle
  /\ SecIdle
  /\ ExtIdle

\* calls one after the other, as the loop of checkWithNpmRegistry makes them
NextSeqCalls == CallStartIdle \/ CallReturn

SpecSeqCalls == InitCalls /\ [][NextSeqCalls]_vars

\* calls that may overlap
NextCalls == CallStart \/ CallReturn

SpecCalls == InitCalls /\ [][NextCalls]_vars

\* ------------------------------------------------------ cache claims
\* the number of requests sent for a key
Requests(key) == Cardinality({i \in 1..Len(fetchLog) : fetchLog[i].key = key})

\* C11 as stated: over any sequence of getPackageVulnerabilities calls and
\* whatever the requests answer, at most one request is sent for each
\* name@version key.
C11_AtMostOneRequestPerKey ==
  \A k \in CallKeys : Requests(cacheKey(k[1], k[2])) <= 1

\* C11 as amended: over any sequence of getPackageVulnerabilities calls made
\* one after the other, no request is sent for a key after a request for
\* that key was answered successfully (with or without findings); a request
\* that failed is not remembered, and a call served from the cache returns
\* what that successful request yielded.
C11_NoRequestAfterSuccess ==
  /\ \A i \in 1..Len(fetchLog) : \A j \in 1..Len(fetchLog) :
       (i < j /\ fetchLog[i].key = fetchLog[j].key) => fetchLog[i].outcome.kind # "ok"
  /\ \A j \in 1..Len(calls) :
       ~calls[j].requested =>
         \E i \in 1..(j - 1) :
           /\ calls[i].key = calls[j].key
           /\ calls[i].requested
           /\ calls[i].outcome.kind = "ok"
           /\ calls[i].records = calls[j].records

\* three calls for one key: a request that fails, a request that succeeds
\* with a finding, a call served from the cache
C11_Witness ==
  /\ Len(calls) = 3
  /\ \A i \in 1..3 : calls[i].key = calls[1].key /\ calls[i].state = "returned"
  /\ calls[1].requested /\ calls[1].outcome.kind = "http"
  /\ calls[2].requested /\ calls[2].outcome.kind = "ok" /\ calls[2].records # <<>>
  /\ ~calls[3].requested

\* C16 as stated: when a call for a key starts while another call for the
\* same key is suspended on its request, at most one request is sent for
\* the key, and once both have returned they have returned the same
\* records.
C16_ConcurrentSameKey ==
  \A i \in 1..Len(calls) : \A j \in calls[i].during :
    calls[i].key = calls[j].key =>
      /\ Requests(calls[i].key) <= 1
      /\ (calls[i].state = "returned" /\ calls[j].state = "returned") =>
           calls[i].records = calls[j].records

\* ------------------------------------------------------- updater.js
detectPackageManagerPnpmFirst(lf) ==
  IF lf.pnpm THEN "pnpm" ELSE IF lf.yarn THEN "yarn" ELSE "npm"

\* detectPackageManager: yarn.lock, then pnpm-lock.yaml, else npm
detectPackageManager(lf) ==
  IF lf.yarn THEN "yarn" ELSE IF lf.pnpm THEN "pnpm" ELSE "npm"

getVersionPrefixCaret(version) == <<Op("^")>>

RECURSIVE getVersionPrefix(_)
\* version.match(/^([~^>=<]*)/)[0]
getVersionPrefix(version) ==
  IF version # <<>> /\ Head(version).k \in OpChars
  THEN <<Head(version)>> \o getVersionPrefix(Tail(version))
  ELSE <<>>

\* one line printed by updateDependencies
Line(kind, name, from, to, bucketName) ==
  [kind |-> kind, name |-> name, from |-> from, to |-> to, depType |-> bucketName]
Note(kind) == Line(kind, "", <<>>, <<>>, "")

RECURSIVE rewrite(_, _, _)
\* the loop of updateDependenciesInPackageJson: an entry the bucket holds
\* with a truthy range becomes `${prefix}${pkg.latest}` and is printed
rewrite(json, bucketName, updates) ==
  IF updates = <<>> THEN [json |-> json, log |-> <<>>]
  ELSE LET pkg == Head(updates)
           bucket == json.deps[bucketName]
           held == pkg.name \in DOMAIN bucket /\ truthy(bucket[pkg.name])
           to == getVersionPrefix(bucket[pkg.name]) \o pkg.latest
           next == IF held THEN [json EXCEPT !.deps[bucketName][pkg.name] = to] ELSE json
           rest == rewrite(next, bucketName, Tail(updates))
       IN [json |-> rest.json,
           log |-> (IF held
                    THEN <<Line("updated", pkg.name, bucket[pkg.name], to, bucketName)>>
                    ELSE <<>>) \o rest.log]

\* updateDependenciesInPackageJson: a missing bucket is created first
updateDependenciesInPackageJson(json, bucketName, updates) ==
  rewrite([json EXCEPT !.present = @ \cup {bucketName}], bucketName, updates)

\* updates.filter(pkg => pkg.type === type)
ofType(updates, type) == SelectSeq(updates, LAMBDA pkg : pkg.type = type)

\* lines 71-97: the buckets rewritten in turn, dev and peer only when their
\* flag is set; updated says whether any call was made
applyUpdates(json, updates, flags) ==
  LET prod == ofType(updates, "prod")
      dev == ofType(updates, "dev")
      peer == ofType(updates, "peer")
      doProd == prod # <<>>
      doDev == flags.dev /\ dev # <<>>
      doPeer == flags.peer /\ peer # <<>>
      r1 == IF doProd THEN updateDependenciesInPackageJson(json, "dependencies", prod)
            ELSE [json |-> json, log |-> <<>>]
      r2 == IF doDev THEN updateDependenciesInPackageJson(r1.json, "devDependencies", dev)
            ELSE [json |-> r1.json, log |-> <<>>]
      r3 == IF doPeer THEN updateDependenciesInPackageJson(r2.json, "peerDependencies", peer)
            ELSE [json |-> r2.json, log |-> <<>>]
  IN [json |-> r3.json, log |-> r1.log \o r2.log \o r3.log,
      updated |-> doProd \/ doDev \/ doPeer]

\* the subsequences of a sequence: what the checkbox prompt can return
Selections(q) ==
  {SelectSeq([i \in 1..Len(q) |-> <<i, q[i]>>], LAMBDA x : x[1] \in S) : S \in SUBSET (1..Len(q))}
unindex(q) == [i \in 1..Len(q) |-> q[i][2]]

\* throw new Error(`Failed to update dependencies: ${error.message}`)
updateCatch(message) == <<"Failed to update dependencies: ">> \o message

ENOENTOpen == <<"ENOENT: no such file or directory, open '", "<cwd>/", "package.json", "'">>
EACCES == <<"EACCES: permission denied, open '", "<cwd>/", "package.json", "'">>

\* lines 23-97: detect the package manager, read package.json, choose the
\* updates (all of them, or those ticked at the prompt), rewrite the parsed
\* manifest
UpdateRead ==
  /\ upc = "called"
  /\ packageManager' = detectPackageManager(lockfiles)
  /\ IF ~manifest.exists \/ ~manifest.parseable
     THEN /\ upc' = "rejected"
          /\ updError' = updateCatch(IF manifest.exists THEN SyntaxError ELSE ENOENTOpen)
          /\ UNCHANGED <<pkgJson, updLog, prompts>>
     ELSE \E selected \in (IF updOptions.auto THEN {firstOutdated}
                            ELSE {unindex(x) : x \in Selections(firstOutdated)}) :
            LET r == applyUpdates(manifest, selected, updOptions) IN
            /\ prompts' = IF updOptions.auto THEN prompts ELSE Append(prompts, "select")
            /\ UNCHANGED updError
            /\ IF selected = <<>>
               THEN /\ upc' = "resolved"
                    /\ updLog' = Append(updLog, Note("none selected"))
                    /\ pkgJson' = manifest
               ELSE /\ pkgJson' = r.json
                    /\ IF r.updated
                       THEN upc' = "write" /\ updLog' = updLog \o r.log
                       ELSE upc' = "resolved"
                              /\ updLog' = Append(updLog \o r.log, Note("no updates"))
  /\ UNCHANGED <<manifest, checkerVars, secVars, cliVars, calls, lockfiles, updOptions,
                 firstOutdated>>

\* await writeFile(packageJsonPath, ...): the file takes the rewritten
\* manifest, or the write fails and the outer catch rethrows
UpdateWrite ==
  /\ upc = "write"
  /\ \E ok \in BOOLEAN :
       IF ok
       THEN /\ manifest' = pkgJson
            /\ upc' = "install"
            /\ updLog' = Append(updLog, Note("wrote package.json"))
            /\ UNCHANGED updError
       ELSE /\ upc' = "rejected"
            /\ updError' = updateCatch(EACCES)
            /\ UNCHANGED <<manifest, updLog>>
  /\ UNCHANGED <<checkerVars, secVars, cliVars, calls, lockfiles, updOptions,
                 packageManager, pkgJson, prompts, firstOutdated>>

installCatchRethrow(message) == [kind |-> "throw", message |-> message]

\* catch (error) of the install step: the failure is printed
installCatch(message) == [kind |-> "report", message |-> message]

\* execSync(`${packageManager} install`) inside its own try
UpdateInstall ==
  /\ upc = "install"
  /\ \E ok \in BOOLEAN :
       IF ok
       THEN /\ upc' = "resolved"
            /\ updLog' = Append(updLog, Line("installed", packageManager, <<>>, <<>>, ""))
            /\ UNCHANGED updError
       ELSE LET c == installCatch(<<"Command failed: ", packageManager, " install">>) IN
            IF c.kind = "report"
            THEN /\ upc' = "resolved"
                 /\ updLog' = Append(updLog, Line("install failed", packageManager, <<>>, <<>>, ""))
                 /\ UNCHANGED updError
            ELSE /\ upc' = "rejected"
                 /\ updError' = updateCatch(c.message)
                 /\ UNCHANGED updLog
  /\ UNCHANGED <<manifest, checkerVars, secVars, cliVars, calls, lockfiles, updOptions,
                 packageManager, pkgJson, prompts, firstOutdated>>

\* --------------------------------------- check, update, check again
\* the ranges of the manifests the updater is run on
UpdRanges ==
  {q \o <<Ver(<<0, 1, 0, 1>>)>> : q \in Prefixes}
    \cup {<<Ver(<<1, 0, 0, 1>>)>>, <<File, Txt>>, <<>>}

\* package a in any buckets with any of these ranges, package b in
\* dependencies or nowhere
UpdManifests ==
  {Manifest(TRUE, TRUE, UsedBuckets(d), d) :
     d \in {[b \in Buckets |->
               IF b = "dependencies" /\ withB
               THEN [n \in DOMAIN x[b] \cup {"b"} |->
                       IF n = "b" THEN <<Op("^"), Ver(<<0, 1, 0, 1>>)>> ELSE x[b][n]]
               ELSE x[b]] :
             x \in [Buckets -> UNION {[S -> UpdRanges] : S \in SUBSET {"a"}}],
             withB \in BOOLEAN}}

UpdAnswers ==
  {Answer("ok", <<1, 0, 0, 1>>), Answer("ok", <<0, 1, 0, 1>>), Answer("timeout", NoVer)}

UpdRegistries ==
  {[n \in Names |-> IF n = "a" THEN x ELSE Answer("ok", <<1, 0, 0, 1>>)] : x \in UpdAnswers}

Flags == [auto : BOOLEAN, dev : BOOLEAN, peer : BOOLEAN]
Lockfiles == [yarn : BOOLEAN, pnpm : BOOLEAN]

\* updateDependencies(outdated, flags) is called with the result of the
\* check
UpdateCall ==
  /\ pc = "resolved"
  /\ upc = "idle"
  /\ mpc = "idle"
  /\ updOptions' \in Flags
  /\ firstOutdated' = outdated
  /\ upc' = "called"
  /\ UNCHANGED <<manifest, checkerVars, secVars, cliVars, calls, lockfiles, packageManager,
                 pkgJson, updLog, prompts, updError>>

\* checkDependencies is called again once updateDependencies has resolved
CheckAgain ==
  /\ pc = "resolved"
  /\ upc = "resolved"
  /\ mpc = "idle"
  /\ upc' = "again"
  /\ pc' = "start"
  /\ allDeps' = <<>>
  /\ pending' = <<>>
  /\ outdated' = <<>>
  /\ queried' = <<>>
  /\ warnings' = <<>>
  /\ error' = <<>>
  /\ UNCHANGED <<manifest, registry, secVars, cliVars, calls, lockfiles, updOptions,
                 packageManager, pkgJson, updLog, prompts, updError, firstOutdated>>

InitUpdate ==
  /\ \/ manifest \in UpdManifests /\ registry \in UpdRegistries /\ lockfiles = NoLockfiles
     \/ /\ manifest \in FewManifests
        /\ registry = [n \in Names |-> Answer("ok", <<1, 1, 0, 1>>)]
        /\ lockfiles \in Lockfiles
  /\ pc = "start"
  /\ allDeps = <<>>
  /\ pending = <<>>
  /\ outdated = <<>>
  /\ queried = <<>>
  /\ warnings = <<>>
  /\ error = <<>>
  /\ SecIdle
  /\ UpdIdle
  /\ CliIdle
  /\ calls = <<>>

NextUpdate ==
  AccessFails \/ ReadManifest \/ SkipEntry \/ CheckEntry \/ ReturnOutdated
    \/ UpdateCall \/ UpdateRead \/ UpdateWrite \/ UpdateInstall \/ CheckAgain

SpecUpdate == InitUpdate /\ [][NextUpdate]_vars

\* ------------------------------------------------------------ cli.js
\* getSeverityColor calls severity.toLowerCase(): displayVulnerabilities
\* throws a TypeError on a record without severity
displayThrows(vulns) == \E k \in 1..Len(vulns) : vulns[k].severity = Undefined

\* lines 75-79 and the end of main: the exit status of the process
lastDisplay(vulns) == IF displayThrows(vulns) THEN "1" ELSE "0"

\* main reads the options and starts the checks they ask for
MainStart ==
  /\ mpc = "start"
  /\ IF options.security
     THEN mpc' = "security" /\ spc' = "start" /\ UNCHANGED pc
     ELSE IF options.outdated
     THEN mpc' = "outdated" /\ pc' = "start" /\ UNCHANGED spc
     ELSE mpc' = "full" /\ pc' = "start" /\ spc' = "start"
  /\ UNCHANGED <<manifest, registry, allDeps, pending, outdated, queried, warnings, error,
                 variant, auditOutput, auditStatuses, spending, vulnerabilities,
                 vulnerabilityCache, fetchLog, updVars, options, exitCode, calls>>

\* --security: the vulnerabilities are displayed and main returns
MainSecurityDone ==
  /\ mpc = "security"
  /\ spc \in {"resolved", "rejected"}
  /\ mpc' = "done"
  /\ exitCode' = IF spc = "rejected" THEN "1" ELSE lastDisplay(vulnerabilities)
  /\ UNCHANGED <<manifest, checkerVars, secVars, updVars, options, calls>>

\* --outdated: the outdated packages are displayed and main returns
MainOutdatedDone ==
  /\ mpc = "outdated"
  /\ pc \in {"resolved", "rejected"}
  /\ mpc' = "done"
  /\ exitCode' = IF pc = "rejected" THEN "1" ELSE "0"
  /\ UNCHANGED <<manifest, checkerVars, secVars, updVars, options, calls>>

\* Promise.all rejects: catch, process.exit(1)
MainRejected ==
  /\ mpc = "full"
  /\ pc = "rejected" \/ spc = "rejected"
  /\ mpc' = "done"
  /\ exitCode' = "1"
  /\ UNCHANGED <<manifest, checkerVars, secVars, updVars, options, calls>>

\* lines 52-79: both checks have resolved; the outdated packages are
\* displayed and updateDependencies is called, asked about, or passed over
MainReport ==
  /\ mpc = "full"
  /\ pc = "resolved"
  /\ spc = "resolved"
  /\ IF outdated # <<>> /\ (options.update \/ (options.ci /\ ~options.security))
     THEN /\ mpc' = "updating"
          /\ upc' = "called"
          /\ updOptions' = [auto |-> TRUE, dev |-> FALSE, peer |-> FALSE]
          /\ firstOutdated' = outdated
          /\ UNCHANGED <<prompts, exitCode>>
     ELSE IF outdated # <<>> /\ ~options.ci
     THEN /\ prompts' = Append(prompts, "confirm")
          /\ \E update \in BOOLEAN :
               IF update
               THEN /\ mpc' = "updating"
                    /\ upc' = "called"
                    /\ updOptions' = [auto |-> FALSE, dev |-> TRUE, peer |-> TRUE]
                    /\ firstOutdated' = outdated
                    /\ UNCHANGED exitCode
               ELSE /\ mpc' = "done"
                    /\ exitCode' = lastDisplay(vulnerabilities)
                    /\ UNCHANGED <<upc, updOptions, firstOutdated>>
     ELSE /\ mpc' = "done"
          /\ exitCode' = lastDisplay(vulnerabilities)
          /\ UNCHANGED <<upc, updOptions, firstOutdated, prompts>>
  /\ UNCHANGED <<manifest, checkerVars, secVars, lockfiles, packageManager, pkgJson,
                 updLog, updError, options, calls>>

\* updateDependencies has settled: a rejection ends in process.exit(1),
\* otherwise the vulnerabilities are displayed and main returns
MainFinish ==
  /\ mpc = "updating"
  /\ upc \in {"resolved", "rejected"}
  /\ mpc' = "done"
  /\ exitCode' = IF upc = "rejected" THEN "1" ELSE lastDisplay(vulnerabilities)
  /\ UNCHANGED <<manifest, checkerVars, secVars, updVars, options, calls>>

Options == [ci : BOOLEAN, update : BOOLEAN, security : BOOLEAN, outdated : BOOLEAN]

\* the manifests the command is run on
CliManifests ==
  {Manifest(TRUE, TRUE, UsedBuckets(d), d) :
     d \in {[NoDeps EXCEPT ![b] = [n \in {"a"} |-> r]] :
              b \in Buckets, r \in {<<Op("^"), Ver(<<0, 1, 0, 1>>)>>, <<File, Txt>>}}
            \cup {[NoDeps EXCEPT !["dependencies"] = [n \in {"a"} |-> <<Ver(<<1, 0, 0, 1>>)>>],
                                 !["devDependencies"] = [n \in {"b"} |-> <<Op("~"), Ver(<<0, 1, 0, 1>>)>>]]}}
    \cup {Manifest(FALSE, FALSE, {}, NoDeps)}

CliOutputs ==
  FewOutputs
    \cup {Output("audit", <<>>, FALSE),
          Output("audit", [n \in {"a"} |->
                             Finding(FALSE, Undefined, Via("array", <<StringCause>>), "<1.0.0")],
                 FALSE)}

InitCli ==
  /\ options \in Options
  /\ mpc = "start"
  /\ exitCode = "none"
  /\ manifest \in CliManifests
  /\ registry \in {[n \in Names |-> IF n = "a" THEN x ELSE Answer("ok", <<1, 0, 0, 1>>)] :
                      x \in {Answer("ok", <<1, 0, 0, 1>>), Answer("timeout", NoVer)}}
  /\ pc = "idle"
  /\ allDeps = <<>>
  /\ pending = <<>>
  /\ outdated = <<>>
  /\ queried = <<>>
  /\ warnings = <<>>
  /\ error = <<>>
  /\ variant \in {"cjs", "esm"}
  /\ auditOutput \in CliOutputs
  /\ auditStatuses = <<>>
  /\ spc = "idle"
  /\ spending = <<>>
  /\ vulnerabilities = <<>>
  /\ vulnerabilityCache = <<>>
  /\ fetchLog = <<>>
  /\ lockfiles = NoLockfiles
  /\ UpdIdle
  /\ calls = <<>>

NextCli ==
  MainStart \/ MainSecurityDone \/ MainOutdatedDone \/ MainRejected \/ MainReport
    \/ MainFinish
    \/ AccessFails \/ ReadManifest \/ SkipEntry \/ CheckEntry \/ ReturnOutdated
    \/ HasNpmAudit \/ RunNpmAudit \/ RegistryRead \/ RegistrySkip \/ RegistryPackage
    \/ RegistryReturn
    \/ UpdateRead \/ UpdateWrite \/ UpdateInstall

SpecCli == InitCli /\ [][NextCli]_vars

\* ------------------------------------------------------ updater claims
\* the lines printed for a rewritten entry
UpdatedLines == {updLog[i] : i \in {j \in 1..Len(updLog) : updLog[j].kind = "updated"}}
Printed(kind) == \E i \in 1..Len(updLog) : updLog[i].kind = kind
PassedRecords == {firstOutdated[i] : i \in 1..Len(firstOutdated)}

\* the longest run of ^ ~ > = < characters a range starts with
LeadingOps(range) ==
  LET stops == {i \in 1..Len(range) : range[i].k \notin {"^", "~", ">", "=", "<"}}
      n == IF stops = {} THEN Len(range)
           ELSE (CHOOSE i \in stops : \A j \in stops : i <= j) - 1
  IN SubSeq(range, 1, n)

\* C12: every entry that updateDependencies rewrites in a bucket belongs to
\* a record of that bucket's type, and the range it gets (in the parsed
\* manifest, and on disk once written) is the operator characters its
\* former range in that bucket began with, followed by the record's latest
\* version.
C12_PrefixPreserved ==
  \A e \in UpdatedLines :
    /\ \E r \in PassedRecords :
         /\ r.name = e.name
         /\ BucketOfType(r.type) = e.depType
         /\ e.to = LeadingOps(e.from) \o r.latest
    /\ pkgJson.deps[e.depType][e.name] = e.to
    /\ Printed("wrote package.json") => manifest.deps[e.depType][e.name] = e.to

\* an entry with the operator run >= or ~ rewritten on disk
C12_Witness ==
  /\ Printed("wrote package.json")
  /\ \E e \in UpdatedLines :
       /\ opRun(e.from) \in {<<">", "=">>, <<"~">>}
       /\ manifest.deps[e.depType][e.name] = e.to

\* C15: the package manager detected is yarn whenever yarn.lock exists,
\* pnpm when only pnpm-lock.yaml exists, npm when neither exists, and the
\* install step runs that package manager.
C15_LockfilePrecedence ==
  /\ packageManager # "none" =>
       /\ lockfiles.yarn => packageManager = "yarn"
       /\ (lockfiles.pnpm /\ ~lockfiles.yarn) => packageManager = "pnpm"
       /\ (~lockfiles.pnpm /\ ~lockfiles.yarn) => packageManager = "npm"
  /\ \A i \in 1..Len(updLog) :
       updLog[i].kind \in {"installed", "install failed"} =>
         updLog[i].name = (IF lockfiles.yarn THEN "yarn"
                           ELSE IF lockfiles.pnpm THEN "pnpm" ELSE "npm")

\* both lockfiles exist and the install step has run
C15_Witness ==
  /\ lockfiles.yarn /\ lockfiles.pnpm
  /\ packageManager = "yarn"
  /\ Printed("installed")

\* C17: once updateDependencies has written the manifest it never rejects;
\* when the install command fails it resolves, the failure is printed, and
\* the manifest on disk keeps every rewritten range.
C17_InstallFailureNoRollback ==
  /\ Printed("wrote package.json") => (upc # "rejected" /\ updError = <<>>)
  /\ Printed("install failed") =>
       /\ upc \in {"resolved", "again"}
       /\ \A e \in UpdatedLines : manifest.deps[e.depType][e.name] = e.to
       /\ upc = "resolved" => manifest = pkgJson

\* resolved after a failed install with a rewritten entry on disk
C17_Witness ==
  /\ upc = "resolved"
  /\ Printed("install failed")
  /\ \E e \in UpdatedLines : e.to # e.from /\ manifest.deps[e.depType][e.name] = e.to

\* C18 as stated: after checkDependencies returned S and
\* updateDependencies(S, {auto, dev, peer}) resolved, a second
\* checkDependencies against the same latest versions returns no record
\* for a package of S.
C18_CheckUpdateCheckFixedPoint ==
  (upc = "again" /\ pc = "resolved" /\ updOptions = [auto |-> TRUE, dev |-> TRUE, peer |-> TRUE]) =>
    \A r \in PassedRecords : ~HasRecord(r.name)

\* ---------------------------------------------------------- cli claims
\* the range with its leading operator characters removed
Bare(range) == SubSeq(range, Len(LeadingOps(range)) + 1, Len(range))

\* C13 as stated: a run with --update that ends with exit status 0 has
\* shown no prompt, and every record of the outdated set, whatever its
\* type, has its range in the manifest on disk rewritten to its latest
\* version.
C13_UpdateRewritesAllTypes ==
  (options.update /\ ~options.security /\ ~options.outdated /\ exitCode = "0") =>
    /\ prompts = <<>>
    /\ \A r \in Records :
         /\ InBucket(BucketOfType(r.type), r.name)
         /\ Bare(manifest.deps[BucketOfType(r.type)][r.name]) = r.latest

\* C14 as stated: a run with --ci whose vulnerability check returned at
\* least one record does not end with exit status 0.
C14_CiFailsOnVulnerabilities ==
  (options.ci /\ spc = "resolved" /\ vulnerabilities # <<>> /\ exitCode # "none") =>
    exitCode # "0"

====
